---- MODULE Spec2Model ----
(***************************************************************************)
(* Model of the SD Bullion scraper (src/main.py): the URL predicates, the  *)
(* price parser, the three request handlers and the listing extraction     *)
(* loop, run as interleaved coroutines over the shared counter             *)
(* products_scraped, the shared set scraped_urls, the crawler's request    *)
(* queue and the dataset that Actor.push_data appends to.                  *)
(*                                                                         *)
(* Strings.  A URL is a sequence of tokens: the scheme with its colon, the *)
(* two slashes, the host, and then path segments, "/" , "?" and the query, *)
(* e.g. <<"https:", "/", "/", "sdbullion.com", "/", "silver", "/">>.  No   *)
(* token other than "/" holds a slash, so Python's substring tests for     *)
(* '/about/' or '/catalogsearch/' are tests for a run of tokens, and       *)
(* rstrip('/') removes trailing "/" tokens.  Substring tests inside one    *)
(* token ('q=', '.', 'inventory', the listing keywords) are membership of  *)
(* the token in the set of tokens that hold that substring.  A price text  *)
(* is a sequence of one-character strings.                                 *)
(***************************************************************************)
EXTENDS Integers, Sequences, FiniteSets, TLC

\* Python's None.  Every nullable value of the model is a sequence, and no text,
\* URL or float is this one.
NULL == <<"None">>

(***************************************************************************)
(* Bounds of the model.                                                    *)
(***************************************************************************)
MaxItems == 2
MaxPriceLen == 4
MaxCards == 2
MaxSegs == 2

(***************************************************************************)
(* Sequence helpers: Python's str operations on token sequences.           *)
(***************************************************************************)
Min(a, b) == IF a <= b THEN a ELSE b

\* sub in s
Contains(s, sub) ==
    \E i \in 1..(Len(s) - Len(sub) + 1) :
        \A k \in 1..Len(sub) : s[i + k - 1] = sub[k]

\* s.rstrip(c)
RECURSIVE RStripTok(_, _)
RStripTok(s, c) ==
    IF s # <<>> /\ s[Len(s)] = c THEN RStripTok(SubSeq(s, 1, Len(s) - 1), c) ELSE s

\* s.lstrip(c)
RECURSIVE LStripTok(_, _)
LStripTok(s, c) ==
    IF s # <<>> /\ s[1] = c THEN LStripTok(Tail(s), c) ELSE s

\* s.strip(c)
StripTok(s, c) == LStripTok(RStripTok(s, c), c)

\* [x for x in s.split(c) if x]
RECURSIVE SplitNonEmpty(_, _)
SplitNonEmpty(s, c) ==
    IF s = <<>> THEN <<>>
    ELSE IF s[1] = c THEN SplitNonEmpty(Tail(s), c)
    ELSE <<s[1]>> \o SplitNonEmpty(Tail(s), c)

\* the URL as it is
keep_slash(url) == url

\* url.rstrip('/')
rstrip_slash(url) == RStripTok(url, "/")

(***************************************************************************)
(* Module constants of src/main.py.                                        *)
(***************************************************************************)
SDBULLION_HOST == "sdbullion.com"

SKIP_PATH_SEGMENTS ==
    {<<"/", s, "/">> : s \in {"about", "shipping", "contact", "faq", "policies",
                              "blog", "customer", "checkout", "cart"}}

AVAILABILITY_STATES ==
    <<"In Stock", "Out of Stock", "Pre-Order", "Sold Out", "Coming Soon", "Discontinued">>

MAX_DESCRIPTION_LENGTH == 2000

\* SEARCH_URL_TEMPLATE.format(query=...); "q=" and the encoded term are tokens
SEARCH_URL_TEMPLATE(query) ==
    <<"https:", "/", "/", "sdbullion.com", "/", "catalogsearch", "/", "result", "/", "?", "q=", query>>

(***************************************************************************)
(* Tokens.  The tables say which path and query tokens hold which          *)
(* substring and what str.lower() makes of a token.                        *)
(***************************************************************************)
SchemeTokens == {"https:", "HTTPS:", "ftp:"}
HostTokens == {"sdbullion.com", "WWW.SDBullion.com", "evil.com"}
SegTokens == {"silver", "Silver", "silver-coins", "1oz-buffalo",
              "2025-american-silver-eagle-coin", "about", "shipping",
              "catalogsearch", "image.jpg", "live-inventory"}
Queries == {<<>>, <<"q=", "silver">>, <<"p=2">>}

\* token.lower()
Lower(t) ==
    CASE t = "Silver" -> "silver"
      [] t = "WWW.SDBullion.com" -> "www.sdbullion.com"
      [] t = "HTTPS:" -> "https:"
      [] OTHER -> t

\* 'q=' in token
HoldsQEq(t) == t \in {"q="}
\* '.' in token
HoldsDot(t) == t \in {"image.jpg"}
\* 'inventory' in token
HoldsInventory(t) == t \in {"live-inventory"}
\* any(cat in token for cat in ('coin', 'bar', 'round', 'bullion', 'mint', 'eagle', 'maple', 'all-'))
HoldsListingKeyword(t) ==
    t \in {"silver-coins", "2025-american-silver-eagle-coin"}

top_level_categories ==
    {"gold", "silver", "platinum", "palladium", "copper", "on-sale", "new-arrivals", "specials"}

(***************************************************************************)
(* urllib.parse.urlparse on a token sequence scheme // host path ? query.  *)
(***************************************************************************)
QueryMark(url) ==
    IF \E i \in 1..Len(url) : url[i] = "?"
    THEN CHOOSE i \in 1..Len(url) : url[i] = "?" /\ \A j \in 1..(i - 1) : url[j] # "?"
    ELSE Len(url) + 1

urlparse(url) ==
    [scheme   |-> CASE Lower(url[1]) = "https:" -> "https"
                    [] Lower(url[1]) = "http:" -> "http"
                    [] OTHER -> "ftp",
     hostname |-> Lower(url[4]),
     path     |-> SubSeq(url, 5, QueryMark(url) - 1),
     query    |-> SubSeq(url, QueryMark(url) + 1, Len(url))]

(***************************************************************************)
(* The URL predicates.                                                     *)
(***************************************************************************)
\* the site test without the host comparison
validate_url_any_host(url) == urlparse(url).scheme \in {"http", "https"}

validate_url(url) ==
    LET parsed == urlparse(url)
        host == parsed.hostname
    IN  /\ parsed.scheme \in {"http", "https"}
        /\ (host = SDBULLION_HOST \/ host = "www.sdbullion.com")

is_search_url(url) ==
    \/ Contains(url, <<"/", "catalogsearch", "/">>)
    \/ \E i \in 1..Len(url) : HoldsQEq(url[i])

\* any(skip in url for skip in SKIP_PATH_SEGMENTS)
any_skip_in(url) == \E skip \in SKIP_PATH_SEGMENTS : Contains(url, skip)

\* the category test with the two-segment rule applied to paths of any length
is_category_url_any_depth(url) ==
    IF is_search_url(url) THEN FALSE
    ELSE
      LET parsed == urlparse(url)
          lowered == [i \in 1..Len(parsed.path) |-> Lower(parsed.path[i])]
          path == StripTok(lowered, "/")
          segments == SplitNonEmpty(path, "/")
      IN  IF path = <<>> THEN TRUE
          ELSE IF segments[1] \in top_level_categories THEN TRUE
          ELSE IF \E i \in 1..Len(path) : HoldsInventory(path[i]) THEN TRUE
          ELSE FALSE

is_category_url(url) ==
    IF is_search_url(url) THEN FALSE
    ELSE
      LET parsed == urlparse(url)
          lowered == [i \in 1..Len(parsed.path) |-> Lower(parsed.path[i])]
          path == StripTok(lowered, "/")
          segments == SplitNonEmpty(path, "/")
      IN  IF path = <<>> THEN TRUE
          ELSE IF Len(segments) = 1 /\ segments[1] \in top_level_categories THEN TRUE
          ELSE IF /\ Len(segments) = 2
                  /\ segments[1] \in top_level_categories
                  /\ HoldsListingKeyword(segments[2]) THEN TRUE
          ELSE IF \E i \in 1..Len(path) : HoldsInventory(path[i]) THEN TRUE
          ELSE FALSE

is_product_url(url) ==
    IF ~validate_url(url) THEN FALSE
    ELSE IF is_search_url(url) THEN FALSE
    ELSE IF any_skip_in(url) THEN FALSE
    ELSE
      LET parsed == urlparse(url)
          path == StripTok(parsed.path, "/")
      IN  IF path = <<>> THEN FALSE
          ELSE IF HoldsDot(path[Len(path)]) THEN FALSE
          ELSE IF ~is_category_url(url) THEN TRUE
          ELSE FALSE

\* the label of an initial request (main, lines 562-567)
request_label(url) ==
    IF is_search_url(url) THEN "SEARCH"
    ELSE IF is_category_url(url) THEN "CATEGORY"
    ELSE "PRODUCT"

\* The classifier the predicates make up: site membership first, then the
\* search test, the category test, and the product test with its exclusions.
classify(url) ==
    IF ~validate_url(url) THEN "Invalid"
    ELSE IF is_search_url(url) THEN "Search"
    ELSE IF is_category_url(url) THEN "Category"
    ELSE IF is_product_url(url) THEN "Product"
    ELSE "Excluded"

(***************************************************************************)
(* parse_price.  A text is a sequence of characters; a float is the pair   *)
(* <<n, k>> standing for n / 10^k with no trailing zero in the fraction.   *)
(***************************************************************************)
Digits == {"0", "1", "2", "3", "4", "5", "6", "7", "8", "9"}

DigitValue(c) ==
    CASE c = "0" -> 0 [] c = "1" -> 1 [] c = "2" -> 2 [] c = "3" -> 3 [] c = "4" -> 4
      [] c = "5" -> 5 [] c = "6" -> 6 [] c = "7" -> 7 [] c = "8" -> 8 [] c = "9" -> 9

\* '$' in text
HoldsDollar(text) == \E i \in 1..Len(text) : text[i] = "$"

\* text.strip()
StripSpace(text) == StripTok(text, " ")

\* the end of the longest run of characters of `set` that starts at i (i - 1 if none)
RECURSIVE RunEnd(_, _, _)
RunEnd(text, i, set) ==
    IF i <= Len(text) /\ text[i] \in set THEN RunEnd(text, i + 1, set) ELSE i - 1

\* group 1 of re.search(r'\$?([\d,]+\.?\d*)', text), or NULL when nothing matches
PriceMatch(text) ==
    IF ~\E i \in 1..Len(text) : text[i] \in Digits \cup {","} THEN NULL
    ELSE
      LET first == CHOOSE i \in 1..Len(text) :
                       /\ text[i] \in Digits \cup {","}
                       /\ \A j \in 1..(i - 1) : text[j] \notin Digits \cup {","}
          e1 == RunEnd(text, first, Digits \cup {","})
          e2 == IF e1 < Len(text) /\ text[e1 + 1] = "." THEN e1 + 1 ELSE e1
          e3 == RunEnd(text, e2 + 1, Digits)
      IN  SubSeq(text, first, e3)

\* the matched text with its commas left in
KeepCommas(s) == s

\* s.replace(',', '')
RECURSIVE RemoveCommas(_)
RemoveCommas(s) ==
    IF s = <<>> THEN <<>>
    ELSE IF s[1] = "," THEN RemoveCommas(Tail(s))
    ELSE <<s[1]>> \o RemoveCommas(Tail(s))

RECURSIVE DigitsValue(_)
DigitsValue(s) ==
    IF s = <<>> THEN 0 ELSE 10 * DigitsValue(SubSeq(s, 1, Len(s) - 1)) + DigitValue(s[Len(s)])

RECURSIVE NormFloat(_, _)
NormFloat(n, k) == IF k > 0 /\ n % 10 = 0 THEN NormFloat(n \div 10, k - 1) ELSE <<n, k>>

\* float(s) for s made of digits and at most one '.'; NULL stands for ValueError
ParseFloat(s) ==
    LET dot == IF \E i \in 1..Len(s) : s[i] = "."
               THEN CHOOSE i \in 1..Len(s) : s[i] = "." ELSE Len(s) + 1
        whole == SubSeq(s, 1, dot - 1)
        frac == SubSeq(s, dot + 1, Len(s))
    IN  IF \E i \in 1..Len(s) : s[i] \notin Digits \cup {"."} THEN NULL
        ELSE IF whole = <<>> /\ frac = <<>> THEN NULL
        ELSE NormFloat(DigitsValue(whole \o frac), Len(frac))

parse_price(price_str) ==
    IF price_str = NULL \/ price_str = <<>> THEN NULL
    ELSE LET m == PriceMatch(price_str)
         IN  IF m # NULL THEN ParseFloat(RemoveCommas(m)) ELSE NULL

(***************************************************************************)
(* The inputs of a run: the URLs the actor input and the pages can hold,   *)
(* the listing pages and the product pages the site can serve.             *)
(***************************************************************************)
Site(host, path) == <<"https:", "/", "/", host>> \o path

EagleUrl      == Site("sdbullion.com", <<"/", "2025-american-silver-eagle-coin">>)
EagleSlashUrl == EagleUrl \o <<"/">>
BuffaloUrl    == Site("www.sdbullion.com", <<"/", "silver", "/", "1oz-buffalo">>)
BarUrl        == Site("sdbullion.com", <<"/", "1oz-buffalo">>)
AboutUrl      == Site("sdbullion.com", <<"/", "about", "/">>)
ShippingUrl   == Site("sdbullion.com", <<"/", "about", "/", "shipping", "/">>)
ImageUrl      == Site("sdbullion.com", <<"/", "image.jpg">>)
SilverUrl     == Site("sdbullion.com", <<"/", "silver">>)
OffSiteUrl    == Site("evil.com", <<"/", "2025-american-silver-eagle-coin">>)

\* a price text from its characters
Price30 == <<"$", "3", "0", ".", "5", "0">>
Price5k == <<" ", "$", "5", ",", "1", "2", "0", ".", "9", "6", " ">>
PriceCall == <<"C", "a", "l", "l">>
PriceBare == <<"1", "2", ".", "5">>

\* what one product card yields in EXTRACT_LISTING_PRODUCTS_JS
Card(url, name, price, image) == [url |-> url, name |-> name, price |-> price, image |-> image]

(***************************************************************************)
(* EXTRACT_LISTING_PRODUCTS_JS.  A page is the sequence of its containers  *)
(* in document order.  A container matches the selectors of strategy 1     *)
(* ("item"), those of strategy 2 ("grid") or neither ("none"), and holds   *)
(* at most one anchor: href is its address (NULL without anchor), text its *)
(* innerText, title its title attribute; name is the text of the name      *)
(* element the strategy's selector finds (NULL when it finds none), price  *)
(* the text of the price element (NULL when there is none).  No container  *)
(* holds an img.                                                           *)
(***************************************************************************)
Element(sel, href, name, text, title, price) ==
    [sel |-> sel, href |-> href, name |-> name, text |-> text, title |-> title, price |-> price]

\* a[href*="sdbullion.com"]
HoldsSite(url) == \E i \in 1..Len(url) : url[i] \in {"sdbullion.com", "www.sdbullion.com"}

\* lines 25-43, from container i on, with the hrefs pushed so far
RECURSIVE Strategy1(_, _, _)
Strategy1(doc, i, seen) ==
    IF i > Len(doc) THEN <<>>
    ELSE LET el == doc[i]
         IN  IF /\ el.sel = "item"
                /\ el.href # NULL
                /\ (el.name # NULL \/ el.title # <<>>)
                /\ el.href \notin seen
             THEN <<Card(el.href,
                         IF el.name # NULL THEN StripSpace(el.name) ELSE StripSpace(el.title),
                         IF el.price # NULL THEN StripSpace(el.price) ELSE NULL,
                         NULL)>>
                      \o Strategy1(doc, i + 1, seen \cup {el.href})
             ELSE Strategy1(doc, i + 1, seen)

\* lines 46-63
RECURSIVE Strategy2(_, _, _)
Strategy2(doc, i, seen) ==
    IF i > Len(doc) THEN <<>>
    ELSE LET el == doc[i]
         IN  IF /\ el.sel = "grid"
                /\ el.href # NULL /\ HoldsSite(el.href)
                /\ el.name # NULL
                /\ el.href \notin seen
             THEN <<Card(el.href, StripSpace(el.name),
                         IF el.price # NULL THEN StripSpace(el.price) ELSE NULL,
                         NULL)>>
                      \o Strategy2(doc, i + 1, seen \cup {el.href})
             ELSE Strategy2(doc, i + 1, seen)

\* lines 68-85
RECURSIVE Strategy3(_, _, _)
Strategy3(doc, i, seen) ==
    IF i > Len(doc) THEN <<>>
    ELSE LET el == doc[i]
             name == IF el.text # <<>> THEN StripSpace(el.text) ELSE StripSpace(el.title)
         IN  IF /\ el.href # NULL /\ HoldsSite(el.href)
                /\ name # <<>> /\ Len(name) > 5
                /\ el.href \notin seen
                /\ ~Contains(el.href, <<"/", "catalogsearch", "/">>)
                /\ ~Contains(el.href, <<"/", "checkout", "/">>)
                /\ ~Contains(el.href, <<"/", "customer", "/">>)
                /\ el.price # NULL
             THEN <<Card(el.href, name, StripSpace(el.price), NULL)>>
                      \o Strategy3(doc, i + 1, seen \cup {el.href})
             ELSE Strategy3(doc, i + 1, seen)

\* lines 20-89: `seen` is empty whenever a strategy starts, since a strategy
\* runs only while products is empty and every add goes with a push
EXTRACT_LISTING_PRODUCTS_JS(doc) ==
    LET first == Strategy1(doc, 1, {})
        second == Strategy2(doc, 1, {})
    IN  IF first # <<>> THEN first
        ELSE IF second # <<>> THEN second
        ELSE Strategy3(doc, 1, {})

\* The lists page.evaluate(EXTRACT_LISTING_PRODUCTS_JS) can return: the script
\* keeps one entry per href (its `seen` set), so the URLs of a list differ.
ListingPages ==
    { <<>>,
      << Card(EagleUrl, <<"Silver Eagle">>, Price30, <<"eagle.png">>),
         Card(BuffaloUrl, <<"Buffalo">>, NULL, NULL),
         Card(BarUrl, <<"Bar">>, PriceCall, <<"bar.png">>) >>,
      << Card(OffSiteUrl, <<"Elsewhere">>, Price30, NULL),
         Card(EagleSlashUrl, <<"Silver Eagle">>, PriceBare, NULL),
         Card(ShippingUrl, <<"Shipping">>, <<>>, NULL),
         Card(EagleUrl, <<"Silver Eagle">>, Price30, <<"eagle.png">>) >>,
      << Card(ImageUrl, <<"Image">>, NULL, <<"image.jpg">>),
         Card(SilverUrl, <<"Silver">>, NULL, NULL),
         Card(BuffaloUrl, <<"Buffalo">>, Price30, NULL) >> }

\* What a product page shows: whether an h1 appears, its text, the texts of the
\* elements the price selectors find (in selector order), the og:image or gallery
\* image, the SKU the script finds, the availability phrases in the page source,
\* and the length of the description text (NULL: no description element).
ProductPages ==
    { [h1 |-> FALSE, name |-> NULL, prices |-> <<>>, image |-> NULL, sku |-> NULL,
       phrases |-> {}, description |-> NULL],
      [h1 |-> TRUE, name |-> <<" ", "Silver Eagle", " ">>, prices |-> <<PriceCall, Price5k>>,
       image |-> <<"eagle.png">>, sku |-> <<"SKU-1">>,
       phrases |-> {"Out of Stock", "In Stock"}, description |-> <<"chars", 2500>>],
      [h1 |-> TRUE, name |-> <<>>, prices |-> <<PriceBare>>, image |-> NULL, sku |-> NULL,
       phrases |-> {}, description |-> <<"chars", 0>>] }

\* the links the pagination selector can match on a listing page
PageLink(url) ==
    IF Contains(url, <<"p=2">>) THEN url
    ELSE IF Contains(url, <<"?">>) THEN url \o <<"&", "p=2">>
    ELSE url \o <<"?", "p=2">>

PaginationLinks(url) == {<<>>, <<PageLink(url)>>}

\* term.strip()
StripTerm(term) == IF term = "  " THEN "" ELSE term
\* quote_plus(term)
quote_plus(term) ==
    CASE term = "gold bar" -> "gold+bar"
      [] term = "Silver coin" -> "Silver+coin"
      [] OTHER -> term

\* an entry of start_urls: a string, a dict with "url", or anything else
StrItem(url) == [kind |-> "str", url |-> url]
DictItem(url) == [kind |-> "dict", url |-> url]
OtherItem == [kind |-> "other", url |-> NULL]

\* actor inputs: search_terms and start_urls
ActorInput(search_terms, start_urls_input) ==
    [search_terms |-> search_terms, start_urls |-> start_urls_input]

ActorInputs ==
    { ActorInput(<<>>, <<>>),
      ActorInput(<<"gold bar">>, <<>>),
      ActorInput(<<"  ">>, <<StrItem(EagleUrl), StrItem(EagleSlashUrl)>>),
      ActorInput(<<"  ", "gold bar">>, <<StrItem(EagleSlashUrl), StrItem(BarUrl)>>),
      ActorInput(<<>>, <<StrItem(EagleSlashUrl), StrItem(SilverUrl)>>),
      ActorInput(<<"gold bar">>, <<DictItem(BuffaloUrl), OtherItem, StrItem(OffSiteUrl)>>),
      ActorInput(<<>>, <<StrItem(AboutUrl), StrItem(ImageUrl)>>),
      ActorInput(<<>>, <<StrItem(ShippingUrl), StrItem(SilverUrl)>>),
      ActorInput(<<>>, <<StrItem(OffSiteUrl)>>) }

(***************************************************************************)
(* State.                                                                  *)
(***************************************************************************)
VARIABLES
    actor_input,        \* actor input search_terms and start_urls
    max_items,          \* actor input max_items
    initial_requests,   \* the requests main hands to crawler.run
    queue,              \* the crawler's request queue
    requests_started,   \* requests taken from the queue (max_requests_per_crawl)
    products_scraped,   \* module global
    scraped_urls,       \* module global
    dataset,            \* the records Actor.push_data has stored, in order
    pc,                 \* per handler slot: where its coroutine is suspended
    req,                \* per handler slot: context.request
    frame,              \* per handler slot: the locals alive across its awaits
    log,                \* the last line a handler wrote with Actor.log
    total_reported,     \* the total of the final log line, NULL before it
    probe,              \* a URL handed to the classifier, by its parts
    labels,             \* the labels the classifier returned for it
    price_str,          \* a text handed to parse_price
    price_numeric,      \* what parse_price returned for it
    document,           \* a listing page handed to EXTRACT_LISTING_PRODUCTS_JS
    products            \* the entries the script returned for it

vars == <<actor_input, max_items, initial_requests, queue, requests_started, products_scraped,
          scraped_urls, dataset, pc, req, frame, log, total_reported, probe, labels,
          price_str, price_numeric, document, products>>

\* the arguments and results of the functions taken on their own
unit_vars == <<probe, labels, price_str, price_numeric, document, products>>

crawl_vars == <<actor_input, max_items, initial_requests, queue, requests_started, products_scraped,
                scraped_urls, dataset, pc, req, frame, log, total_reported>>

\* handler slots of the crawler's pool (ConcurrencySettings)
NumWorkers == 2
Workers == 1..NumWorkers

NoRequest == [url |-> NULL, label |-> "NONE"]
\* `found` is history, not a local of the code: the counter, the size of the
\* dataset and the set of scraped URLs when page.evaluate returned the listing.
NoSnapshot == [scraped |-> 0, stored |-> 0, seen |-> {}]
NoFrame == [url |-> NULL, listing_products |-> <<>>, i |-> 0, count |-> 0,
            found |-> NoSnapshot]

Request(url, label) == [url |-> url, label |-> label]

(***************************************************************************)
(* main, lines 266-298: the start URLs from the actor input.               *)
(***************************************************************************)
RECURSIVE SearchUrls(_)
SearchUrls(search_terms) ==
    IF search_terms = <<>> THEN <<>>
    ELSE LET term == StripTerm(Head(search_terms))
         IN  (IF term # "" THEN <<SEARCH_URL_TEMPLATE(quote_plus(term))>> ELSE <<>>)
             \o SearchUrls(Tail(search_terms))

RECURSIVE ExplicitUrls(_)
ExplicitUrls(start_urls_input) ==
    IF start_urls_input = <<>> THEN <<>>
    ELSE LET item == Head(start_urls_input)
         IN  (IF item.kind \in {"dict", "str"} /\ validate_url(item.url)
              THEN <<item.url>> ELSE <<>>)
             \o ExplicitUrls(Tail(start_urls_input))

\* the start URLs without the default search
start_urls_no_default(search_terms, start_urls_input) ==
    SearchUrls(search_terms) \o ExplicitUrls(start_urls_input)

start_urls(search_terms, start_urls_input) ==
    LET urls == SearchUrls(search_terms) \o ExplicitUrls(start_urls_input)
    IN  IF urls = <<>> THEN <<SEARCH_URL_TEMPLATE(quote_plus("Silver coin"))>> ELSE urls

\* main, lines 560-568
InitialRequests(urls) == [k \in 1..Len(urls) |-> Request(urls[k], request_label(urls[k]))]

\* max_requests_per_crawl=max_items * 5
max_requests_per_crawl == max_items * 5

NoProbe == [scheme |-> "https:", host |-> "sdbullion.com", segs |-> <<>>,
            slash |-> FALSE, query |-> <<>>]
NoLabels == [raw |-> "?", norm |-> "?", slashed |-> "?", request |-> "?"]
NoPrice == <<"?">>
NoProducts == <<Card(NULL, <<"?">>, NULL, NULL)>>

Init ==
    /\ max_items \in 1..MaxItems
    /\ actor_input \in ActorInputs
    /\ initial_requests =
           InitialRequests(start_urls(actor_input.search_terms, actor_input.start_urls))
    /\ queue = initial_requests
    /\ requests_started = 0
    /\ products_scraped = 0
    /\ scraped_urls = {}
    /\ dataset = <<>>
    /\ pc = [w \in Workers |-> "idle"]
    /\ req = [w \in Workers |-> NoRequest]
    /\ frame = [w \in Workers |-> NoFrame]
    /\ log = "none"
    /\ total_reported = NULL
    /\ probe = NoProbe
    /\ labels = NoLabels
    /\ price_str = NULL
    /\ price_numeric = NoPrice
    /\ document = <<>>
    /\ products = NoProducts

(***************************************************************************)
(* The crawler (crawler.run): a free slot takes the next request, up to    *)
(* max_requests_per_crawl, and loads its page; the router then calls the   *)
(* handler of the request's label.                                         *)
(***************************************************************************)
Finish(w, line) ==
    /\ pc' = [pc EXCEPT ![w] = "idle"]
    /\ req' = [req EXCEPT ![w] = NoRequest]
    /\ frame' = [frame EXCEPT ![w] = NoFrame]
    /\ log' = line

\* a crawler that does not count the pages it opens
count_nothing(started) == started

\* the crawler's count of the pages it has opened, held against max_requests_per_crawl
count_request(started) == started + 1

crawler_fetch(w) ==
    /\ pc[w] = "idle"
    /\ total_reported = NULL
    /\ queue # <<>>
    /\ requests_started < max_requests_per_crawl
    /\ req' = [req EXCEPT ![w] = Head(queue)]
    /\ queue' = Tail(queue)
    /\ requests_started' = count_request(requests_started)
    /\ pc' = [pc EXCEPT ![w] = "navigate"]
    /\ UNCHANGED <<actor_input, max_items, initial_requests, products_scraped, scraped_urls, dataset,
                   frame, log, total_reported, unit_vars>>

\* the duplicate test left out
never_scraped(url, seen) == FALSE

\* url in scraped_urls (lines 231 and 317)
already_scraped(url, seen) == url \in seen

(***************************************************************************)
(* product_handler.                                                        *)
(***************************************************************************)
\* lines 333-353: the first price element whose text holds '$', stripped
RECURSIVE FirstDollarText(_)
FirstDollarText(texts) ==
    IF texts = <<>> THEN NULL
    ELSE IF Head(texts) # <<>> /\ HoldsDollar(Head(texts)) THEN StripSpace(Head(texts))
    ELSE FirstDollarText(Tail(texts))

\* lines 367-372
RECURSIVE FirstState(_, _)
FirstState(states, phrases) ==
    IF states = <<>> THEN <<"Unknown">>
    ELSE IF Head(states) \in phrases THEN <<Head(states)>>
    ELSE FirstState(Tail(states), phrases)

\* lines 396-410: raw.strip()[:MAX_DESCRIPTION_LENGTH], by its length
Description(raw) ==
    IF raw = NULL \/ raw[2] = 0 THEN NULL
    ELSE <<"chars", Min(raw[2], MAX_DESCRIPTION_LENGTH)>>

\* lines 330-424: the record pushed for a product page
ProductRecord(url, page) ==
    LET price_text == FirstDollarText(page.prices)
    IN  [url          |-> url,
         name         |-> IF page.name # <<>> THEN StripSpace(page.name) ELSE NULL,
         price        |-> price_text,
         priceNumeric |-> parse_price(price_text),
         imageUrl     |-> page.image,
         sku          |-> IF page.sku # NULL /\ page.sku # <<>> THEN StripSpace(page.sku) ELSE NULL,
         availability |-> FirstState(AVAILABILITY_STATES, page.phrases),
         description  |-> Description(page.description)]

\* a handler that starts whatever the counter says
never_over_budget == FALSE

\* lines 307, 431 and 485: the test a handler starts with
over_budget == products_scraped >= max_items

\* lines 306-320, up to the first await
product_handler_enter(w) ==
    /\ pc[w] = "navigate"
    /\ req[w].label = "PRODUCT"
    /\ \E url \in {rstrip_slash(req[w].url)} :
           IF over_budget
           THEN Finish(w, log) /\ UNCHANGED scraped_urls
           ELSE IF any_skip_in(url)
           THEN Finish(w, "Skipping informational URL") /\ UNCHANGED scraped_urls
           ELSE IF is_category_url(url)
           THEN Finish(w, "Skipping category URL in product handler") /\ UNCHANGED scraped_urls
           ELSE IF already_scraped(url, scraped_urls)
           THEN Finish(w, "Skipping duplicate product") /\ UNCHANGED scraped_urls
           ELSE /\ scraped_urls' = scraped_urls \cup {url}
                /\ pc' = [pc EXCEPT ![w] = "wait_h1"]
                /\ frame' = [frame EXCEPT ![w].url = url]
                /\ log' = "Extracting product"
                /\ UNCHANGED req
    /\ UNCHANGED <<actor_input, max_items, initial_requests, queue, requests_started, products_scraped,
                   dataset, total_reported, unit_vars>>

\* a handler that lets the exception of wait_for_selector through: the crawler
\* takes the request back for another try
title_not_found_retried(w) ==
    /\ Finish(w, "Title not found")
    /\ queue' = Append(queue, req[w])
    /\ UNCHANGED dataset

\* lines 324-328: wait_for_selector('h1') raises, the handler logs and returns
title_not_found(w) ==
    /\ Finish(w, "Title not found")
    /\ UNCHANGED <<dataset, queue>>

\* lines 324-424: the page is read and the record handed to Actor.push_data
product_handler_extract(w) ==
    /\ pc[w] = "wait_h1"
    /\ \E page \in ProductPages :
          IF ~page.h1
          THEN title_not_found(w)
          ELSE /\ dataset' = Append(dataset, ProductRecord(frame[w].url, page))
               /\ pc' = [pc EXCEPT ![w] = "product_pushed"]
               /\ UNCHANGED <<req, frame, log, queue>>
    /\ UNCHANGED <<actor_input, max_items, initial_requests, requests_started, products_scraped,
                   scraped_urls, total_reported, unit_vars>>

\* a record that is stored and not counted
increment_lost(scraped) == scraped

\* products_scraped += 1 (lines 252 and 426)
increment(scraped) == scraped + 1

\* lines 426-427, after push_data returns
product_handler_count(w) ==
    /\ pc[w] = "product_pushed"
    /\ products_scraped' = increment(products_scraped)
    /\ Finish(w, "Scraped products")
    /\ UNCHANGED <<actor_input, max_items, initial_requests, queue, requests_started, scraped_urls,
                   dataset, total_reported, unit_vars>>

(***************************************************************************)
(* extract_products_from_listing and the two listing handlers.             *)
(***************************************************************************)
\* the price test without the currency marker
AnyPrice(price_text) == price_text # NULL /\ price_text # <<>>

\* price_text and '$' in str(price_text)
DollarPrice(price_text) ==
    price_text # NULL /\ price_text # <<>> /\ HoldsDollar(price_text)

\* a listing record that defaults availability the way the product page does
ListingRecordWithAvailability(url, product) ==
    [url          |-> url,
     name         |-> product.name,
     price        |-> IF product.price # NULL /\ product.price # <<>> /\ HoldsDollar(product.price)
                      THEN product.price ELSE NULL,
     priceNumeric |-> IF product.price # NULL /\ product.price # <<>> /\ HoldsDollar(product.price)
                      THEN parse_price(product.price) ELSE NULL,
     imageUrl     |-> product.image,
     sku          |-> NULL,
     availability |-> <<"Unknown">>,
     description  |-> NULL]

\* lines 235-250: the record pushed for a listing entry
ListingRecord(url, product) ==
    LET price_text == product.price
    IN  [url          |-> url,
         name         |-> product.name,
         price        |-> IF DollarPrice(price_text) THEN price_text ELSE NULL,
         priceNumeric |-> IF DollarPrice(price_text) THEN parse_price(price_text) ELSE NULL,
         imageUrl     |-> product.image,
         sku          |-> NULL,
         availability |-> NULL,
         description  |-> NULL]

\* the budget test off by one
budget_overspent(scraped, limit) == scraped > limit

\* line 224
budget_spent(scraped, limit) == scraped >= limit

\* the entry test without the look into scraped_urls
skipped_entry_unvisited(product, seen) ==
    \E url \in {rstrip_slash(product.url)} : ~is_product_url(url)

\* lines 227-232: the entry is passed over (continue)
skipped_entry(product, seen) ==
    \E url \in {rstrip_slash(product.url)} :
        \/ ~is_product_url(url)
        \/ already_scraped(url, seen)

\* lines 223-233: from entry i on, the index of the first entry the loop pushes,
\* or 0 when the loop ends (break, or no entry left) before any push
RECURSIVE listing_loop(_, _, _, _, _)
listing_loop(listing_products, i, seen, scraped, limit) ==
    IF i > Len(listing_products) THEN 0
    ELSE IF budget_spent(scraped, limit) THEN 0
    ELSE IF skipped_entry(listing_products[i], seen)
    THEN listing_loop(listing_products, i + 1, seen, scraped, limit)
    ELSE i

\* a handler that follows the pagination whatever the counter says
always_needed(scraped, limit) == TRUE

\* lines 476-481 and 515-520: enqueue_links when products are still needed
more_needed(scraped, limit) == scraped < limit

paginate(w, scraped) ==
    IF more_needed(scraped, max_items)
    THEN \E links \in PaginationLinks(req[w].url) :
            /\ queue' = queue \o [k \in 1..Len(links) |-> Request(links[k], req[w].label)]
            /\ Finish(w, log)
    ELSE /\ queue' = queue
         /\ Finish(w, log)

\* a handler that returns when nothing was extracted
no_products_return(w) ==
    /\ Finish(w, "No products extracted")
    /\ UNCHANGED queue

\* lines 210-212, 463-474 and 504-513: count is 0, the handler logs what the
\* page holds (awaits) and goes on
no_products_extracted(w) ==
    /\ pc' = [pc EXCEPT ![w] = "diagnose"]
    /\ frame' = [frame EXCEPT ![w] = NoFrame]
    /\ log' = "No products extracted"
    /\ UNCHANGED <<queue, req>>

\* The loop of extract_products_from_listing from entry i on, up to its next
\* await: either the push of one entry, or the end of the loop, the return of
\* count and, when count is not 0, the handler's pagination test.
listing_continue(w, listing_products, i, count, scraped, found) ==
    \E j \in {listing_loop(listing_products, i, scraped_urls, scraped, max_items)} :
        IF j > 0
        THEN \E url \in {rstrip_slash(listing_products[j].url)} :
                 /\ scraped_urls' = scraped_urls \cup {url}
                 /\ dataset' = Append(dataset, ListingRecord(url, listing_products[j]))
                 /\ frame' = [frame EXCEPT ![w] = [url |-> url,
                                                   listing_products |-> listing_products,
                                                   i |-> j, count |-> count,
                                                   found |-> found]]
                 /\ pc' = [pc EXCEPT ![w] = "listing_pushed"]
                 /\ UNCHANGED <<queue, req, log>>
        ELSE /\ UNCHANGED <<scraped_urls, dataset>>
             /\ IF count = 0
                THEN no_products_extracted(w)
                ELSE paginate(w, scraped)

\* lines 430-432 / 484-486, and on to the awaits before the extraction
listing_handler_enter(w, label) ==
    /\ pc[w] = "navigate"
    /\ req[w].label = label
    /\ IF over_budget
       THEN Finish(w, log)
       ELSE /\ pc' = [pc EXCEPT ![w] = "wait_grid"]
            /\ log' = "Processing listing"
            /\ UNCHANGED <<req, frame>>
    /\ UNCHANGED <<actor_input, max_items, initial_requests, queue, requests_started, products_scraped,
                   scraped_urls, dataset, total_reported, unit_vars>>

search_handler(w) == listing_handler_enter(w, "SEARCH")

category_handler(w) == listing_handler_enter(w, "CATEGORY")

\* lines 208-250: the page is evaluated and the loop runs to its first await
extract_products_from_listing(w) ==
    /\ pc[w] = "wait_grid"
    /\ \E listing_products \in ListingPages :
           listing_continue(w, listing_products, 1, 0, products_scraped,
                            [scraped |-> products_scraped, stored |-> Len(dataset),
                             seen |-> scraped_urls])
    /\ UNCHANGED <<actor_input, max_items, initial_requests, requests_started, products_scraped,
                   total_reported, unit_vars>>

\* lines 252-254 after push_data returns, and on to the next await
listing_count(w) ==
    /\ pc[w] = "listing_pushed"
    /\ products_scraped' = increment(products_scraped)
    /\ \E f \in {frame[w]} :
          listing_continue(w, f.listing_products, f.i + 1, f.count + 1,
                           increment(products_scraped), f.found)
    /\ UNCHANGED <<actor_input, max_items, initial_requests, requests_started, total_reported,
                   unit_vars>>

\* lines 463-481 / 504-520: after the diagnostics of an empty extraction
listing_handler_paginate(w) ==
    /\ pc[w] = "diagnose"
    /\ paginate(w, products_scraped)
    /\ UNCHANGED <<actor_input, max_items, initial_requests, requests_started, products_scraped,
                   scraped_urls, dataset, total_reported, unit_vars>>

\* line 571, once crawler.run returns
report_total ==
    /\ total_reported = NULL
    /\ \A w \in Workers : pc[w] = "idle"
    /\ queue = <<>> \/ requests_started >= max_requests_per_crawl
    /\ total_reported' = <<"total", products_scraped>>
    /\ UNCHANGED <<actor_input, max_items, initial_requests, queue, requests_started, products_scraped,
                   scraped_urls, dataset, pc, req, frame, log, unit_vars>>

Next ==
    \/ \E w \in Workers : crawler_fetch(w)
    \/ \E w \in Workers : product_handler_enter(w)
    \/ \E w \in Workers : product_handler_extract(w)
    \/ \E w \in Workers : product_handler_count(w)
    \/ \E w \in Workers : search_handler(w)
    \/ \E w \in Workers : category_handler(w)
    \/ \E w \in Workers : extract_products_from_listing(w)
    \/ \E w \in Workers : listing_count(w)
    \/ \E w \in Workers : listing_handler_paginate(w)
    \/ report_total

Spec == Init /\ [][Next]_vars

\* The event loop runs every coroutine that can take a step, and every await of
\* a handler returns or times out (request_handler_timeout): some step that can
\* be taken is taken.
FairSpec == Spec /\ WF_vars(Next)

(***************************************************************************)
(* The classifier on its own: a URL is drawn by its parts and the          *)
(* predicates are applied to it as written, to it with its trailing        *)
(* slashes removed, and to that with one slash appended.                   *)
(***************************************************************************)
SegLists == UNION {[1..n -> SegTokens] : n \in 0..MaxSegs}

Probes == [scheme : SchemeTokens, host : HostTokens, segs : SegLists,
           slash : BOOLEAN, query : Queries]

RECURSIVE PathOf(_)
PathOf(segs) == IF segs = <<>> THEN <<>> ELSE <<"/", Head(segs)>> \o PathOf(Tail(segs))

UrlOf(p) ==
    <<p.scheme, "/", "/", p.host>> \o PathOf(p.segs)
        \o (IF p.slash THEN <<"/">> ELSE <<>>)
        \o (IF p.query # <<>> THEN <<"?">> \o p.query ELSE <<>>)

InitClassify ==
    /\ actor_input = ActorInput(<<>>, <<>>)
    /\ max_items = 1
    /\ initial_requests = <<>>
    /\ queue = <<>>
    /\ requests_started = 0
    /\ products_scraped = 0
    /\ scraped_urls = {}
    /\ dataset = <<>>
    /\ pc = [w \in Workers |-> "idle"]
    /\ req = [w \in Workers |-> NoRequest]
    /\ frame = [w \in Workers |-> NoFrame]
    /\ log = "none"
    /\ total_reported = NULL
    /\ probe \in Probes
    /\ labels = NoLabels
    /\ price_str = NULL
    /\ price_numeric = NoPrice
    /\ document = <<>>
    /\ products = NoProducts

classify_probe ==
    /\ labels = NoLabels
    /\ LET url == UrlOf(probe)
       IN  labels' = [raw     |-> classify(url),
                      norm    |-> classify(rstrip_slash(url)),
                      slashed |-> classify(rstrip_slash(url) \o <<"/">>),
                      request |-> request_label(url)]
    /\ UNCHANGED <<crawl_vars, probe, price_str, price_numeric, document, products>>

NextClassify == classify_probe

SpecClassify == InitClassify /\ [][NextClassify]_vars

(***************************************************************************)
(* parse_price on its own: a text is drawn, character by character, and    *)
(* parse_price is applied to it.                                           *)
(***************************************************************************)
PriceChars == {"$", "5", "0", ",", ".", " ", "C"}

PriceDollars == <<"$", "5", ",", "1", "2", "0", ".", "9", "6">>
PriceContact == <<"C", "o", "n", "t", "a", "c", "t", " ", "u", "s">>

\* the arguments of parse_price: None, '' and texts
PriceTexts ==
    {NULL, PriceDollars, PriceContact, Price30, Price5k, PriceCall, PriceBare}
        \cup UNION {[1..n -> PriceChars] : n \in 0..MaxPriceLen}

\* no crawl is running
NoCrawl ==
    /\ actor_input = ActorInput(<<>>, <<>>)
    /\ max_items = 1
    /\ initial_requests = <<>>
    /\ queue = <<>>
    /\ requests_started = 0
    /\ products_scraped = 0
    /\ scraped_urls = {}
    /\ dataset = <<>>
    /\ pc = [w \in Workers |-> "idle"]
    /\ req = [w \in Workers |-> NoRequest]
    /\ frame = [w \in Workers |-> NoFrame]
    /\ log = "none"
    /\ total_reported = NULL

InitPrice ==
    /\ NoCrawl
    /\ probe = NoProbe
    /\ labels = NoLabels
    /\ price_str \in PriceTexts
    /\ price_numeric = NoPrice
    /\ document = <<>>
    /\ products = NoProducts

parse_price_probe ==
    /\ price_numeric = NoPrice
    /\ price_numeric' = parse_price(price_str)
    /\ UNCHANGED <<crawl_vars, probe, labels, price_str, document, products>>

NextPrice == parse_price_probe

SpecPrice == InitPrice /\ [][NextPrice]_vars

(***************************************************************************)
(* EXTRACT_LISTING_PRODUCTS_JS on its own: a page is drawn, container by   *)
(* container, and the script is evaluated on it.                           *)
(***************************************************************************)
NameNew == <<"N", "e", "w">>
NameGoldBar == <<"G", "o", "l", "d", " ", "B", "a", "r">>
TextSilverEagle == <<"S", "i", "l", "v", "e", "r", " ", "E", "a", "g", "l", "e">>
TitleEagle == <<"E", "a", "g", "l", "e">>

Elements ==
    { Element(sel, href, name, text, title, price) :
        sel \in {"item", "grid", "none"},
        href \in {NULL, EagleUrl, BarUrl, OffSiteUrl},
        name \in {NULL, NameNew, NameGoldBar},
        text \in {<<>>, TextSilverEagle},
        title \in {<<>>, TitleEagle},
        price \in {NULL, Price30} }

Documents == UNION {[1..n -> Elements] : n \in 0..MaxCards}

InitListing ==
    /\ NoCrawl
    /\ probe = NoProbe
    /\ labels = NoLabels
    /\ price_str = NULL
    /\ price_numeric = NoPrice
    /\ document \in Documents
    /\ products = NoProducts

evaluate_listing ==
    /\ products = NoProducts
    /\ products' = EXTRACT_LISTING_PRODUCTS_JS(document)
    /\ UNCHANGED <<crawl_vars, probe, labels, price_str, price_numeric, document>>

NextListing == evaluate_listing

SpecListing == InitListing /\ [][NextListing]_vars

(***************************************************************************)
(* Properties.                                                             *)
(***************************************************************************)
Records == {dataset[k] : k \in 1..Len(dataset)}

\* C1: in every reachable state the counter products_scraped is at most
\* max_items, also when handlers interleave at their awaits.
BudgetInvariant == products_scraped <= max_items

\* C2: the budget test and the increment are atomic: no step stores a record
\* in a state where products_scraped >= max_items already holds.
NoPushOverBudget ==
    [][Len(dataset') > Len(dataset) => products_scraped < max_items]_vars

\* C3: under every interleaving the dataset holds at most one record per
\* URL, and every record's URL has its trailing slashes removed.
OneRecordPerUrl ==
    /\ \A k \in 1..Len(dataset) : dataset[k].url = rstrip_slash(dataset[k].url)
    /\ \A k, l \in 1..Len(dataset) : dataset[k].url = dataset[l].url => k = l

\* C3 happens: a URL was reached a second time and passed over, as a product
\* target or as a listing entry behind the entry being pushed.
DuplicateSkipped ==
    /\ dataset # <<>>
    /\ \/ log = "Skipping duplicate product"
       \/ \E w \in Workers :
             /\ pc[w] = "listing_pushed"
             /\ \E k \in 1..(frame[w].i - 1) :
                   LET url == rstrip_slash(frame[w].listing_products[k].url)
                   IN  /\ is_product_url(url)
                       /\ \E r \in Records : r.url = url
                       /\ \A m \in (frame[w].found.stored + 1)..Len(dataset) :
                             dataset[m].url # url

\* C4: the label of a URL without trailing slash is the label of that URL
\* with one slash appended.
TrailingSlashInvariance ==
    labels # NoLabels => labels.norm = labels.slashed

\* the URLs C5 is about: on the site, neither search nor category, and the
\* last path segment holds a dot or the URL matches the deny-list
ExcludedUrl(url) ==
    /\ validate_url(url)
    /\ ~is_search_url(url)
    /\ ~is_category_url(url)
    /\ LET path == StripTok(urlparse(url).path, "/")
       IN  \/ path # <<>> /\ HoldsDot(path[Len(path)])
           \/ any_skip_in(url)

\* C5: an excluded URL is never a request of the crawler, as a start URL or
\* otherwise, and no record is stored for it, with or without trailing slash.
ExcludedNeverCrawled ==
    /\ \A k \in 1..Len(initial_requests) : ~ExcludedUrl(initial_requests[k].url)
    /\ \A k \in 1..Len(queue) : ~ExcludedUrl(queue[k].url)
    /\ \A r \in Records : ~ExcludedUrl(r.url) /\ ~ExcludedUrl(r.url \o <<"/">>)

\* the URLs of the site, by scheme token and host token
OnSite(url) ==
    /\ url[1] \in {"https:", "http:", "HTTPS:"}
    /\ url[4] \in {"sdbullion.com", "www.sdbullion.com", "WWW.SDBullion.com"}

\* C6: a URL whose scheme is not http/https or whose host is not the site's
\* is never an initial request and never the URL of a stored record.
OffSiteNeverCrawled ==
    /\ \A k \in 1..Len(initial_requests) : OnSite(initial_requests[k].url)
    /\ \A r \in Records : OnSite(r.url)

\* C6 happens: the input held an off-site start URL, and a listing whose first
\* entries include an off-site URL has been walked past that entry.
OffSiteOffered ==
    /\ \E k \in 1..Len(actor_input.start_urls) :
          /\ actor_input.start_urls[k].kind = "str"
          /\ ~OnSite(actor_input.start_urls[k].url)
    /\ \E w \in Workers :
          /\ pc[w] = "listing_pushed"
          /\ \E k \in 1..(frame[w].i - 1) : ~OnSite(frame[w].listing_products[k].url)

\* the rules of C7 on the parts of a URL
LowerSegs(p) == [k \in 1..Len(p.segs) |-> Lower(p.segs[k])]

SearchRule(p) ==
    \/ \E k \in 1..Len(p.segs) :
          p.segs[k] = "catalogsearch" /\ (k < Len(p.segs) \/ p.slash)
    \/ \E k \in 1..Len(p.query) : p.query[k] = "q="

CategoryRule(p) ==
    LET segs == LowerSegs(p)
    IN  \/ segs = <<>>
        \/ Len(segs) = 1 /\ segs[1] \in top_level_categories
        \/ /\ Len(segs) = 2
           /\ segs[1] \in top_level_categories
           /\ HoldsListingKeyword(segs[2])
        \/ \E k \in 1..Len(segs) : HoldsInventory(segs[k])

PathProbe(segs, slash) ==
    [scheme |-> "https:", host |-> "sdbullion.com", segs |-> segs, slash |-> slash,
     query |-> <<>>]

ListingUrl(w, k) == rstrip_slash(frame[w].listing_products[k].url)
BudgetLeft(w) == max_items - frame[w].found.scraped

\* the listing holds at least as many entries as the budget left, all of them
\* product URLs, distinct and not scraped before
FullListing(w) ==
    LET n == Len(frame[w].listing_products)
    IN  /\ pc[w] = "listing_pushed"
        /\ BudgetLeft(w) >= 1
        /\ n >= BudgetLeft(w)
        /\ \A k \in 1..n : /\ classify(ListingUrl(w, k)) = "Product"
                           /\ ListingUrl(w, k) \notin frame[w].found.seen
        /\ \A k, l \in 1..n : ListingUrl(w, k) = ListingUrl(w, l) => k = l

\* no other handler has stored a record, counted one or marked a URL since
Undisturbed(w) ==
    /\ products_scraped = frame[w].found.scraped + frame[w].count
    /\ Len(dataset) = frame[w].found.stored + frame[w].count + 1
    /\ scraped_urls = frame[w].found.seen
                        \cup {ListingUrl(w, k) : k \in 1..(frame[w].count + 1)}

\* C8: a listing handler that runs undisturbed on a listing of n >= b new
\* product entries, b the budget left, stores the first b entries in order and
\* then stops: it stores and marks nothing more and enqueues no next page.
ListingFillsBudget ==
    [][\A w \in Workers :
          (FullListing(w) /\ Undisturbed(w)) =>
             /\ frame[w].i = frame[w].count + 1
             /\ frame[w].i <= BudgetLeft(w)
             /\ \A k \in 1..frame[w].i :
                   dataset[frame[w].found.stored + k].url = ListingUrl(w, k)
             /\ (pc'[w] # pc[w] \/ frame'[w] # frame[w]) =>
                   IF frame[w].i = BudgetLeft(w)
                   THEN /\ pc'[w] = "idle"
                        /\ queue' = queue
                        /\ dataset' = dataset
                        /\ scraped_urls' = scraped_urls
                        /\ products_scraped' = max_items
                   ELSE /\ pc'[w] = "listing_pushed"
                        /\ frame'[w].i = frame[w].i + 1
                        /\ Len(dataset') = Len(dataset) + 1]_vars

\* C8 happens: with a budget of at least two, an undisturbed handler has
\* stored the last record the budget allows and the listing holds more.
BudgetFilledByListing ==
    \E w \in Workers :
        /\ FullListing(w) /\ Undisturbed(w)
        /\ BudgetLeft(w) >= 2
        /\ frame[w].i = BudgetLeft(w)
        /\ Len(frame[w].listing_products) > BudgetLeft(w)

\* handler slot w stores a listing entry in this step
ListingPush(w) ==
    /\ pc[w] \in {"wait_grid", "listing_pushed"}
    /\ pc'[w] = "listing_pushed"
    /\ pc[w] = "wait_grid" \/ frame'[w].i > frame[w].i

\* C9: a record stored from a listing entry has sku, availability and
\* description None.
ListingRecordsShallow ==
    [][\A w \in Workers :
          ListingPush(w) =>
             /\ Len(dataset') = Len(dataset) + 1
             /\ dataset'[Len(dataset')].sku = NULL
             /\ dataset'[Len(dataset')].availability = NULL
             /\ dataset'[Len(dataset')].description = NULL]_vars

\* C9 happens: the dataset holds a record of a product page with its fields
\* filled, and a listing handler has just stored a record after it.
ShallowAfterFull ==
    /\ \E r \in Records : r.sku # NULL /\ r.availability # NULL /\ r.description # NULL
    /\ \E w \in Workers :
          /\ pc[w] = "listing_pushed"
          /\ dataset[Len(dataset)].url = frame[w].url
          /\ dataset[Len(dataset)].sku = NULL

\* C10: in every stored record priceNumeric is parse_price of the record's
\* price, and it is not None only if the price is not None and holds '$'.
PriceNumericFromPrice ==
    \A r \in Records :
        /\ r.priceNumeric = parse_price(r.price)
        /\ r.priceNumeric # NULL => (r.price # NULL /\ HoldsDollar(r.price))

\* C10 happens: records with and without a numeric price are stored, one of
\* them from a listing entry whose price text had digits but no '$'.
PricedAndUnpriced ==
    /\ \E r \in Records : r.priceNumeric # NULL
    /\ \E r \in Records : r.priceNumeric = NULL
    /\ \E w \in Workers :
          /\ pc[w] = "listing_pushed"
          /\ frame[w].listing_products[frame[w].i].price = PriceBare
          /\ dataset[Len(dataset)].price = NULL

\* the run is over: crawler.run has returned and the total has been logged
Terminal ==
    /\ total_reported # NULL
    /\ \A w \in Workers : pc[w] = "idle"
    /\ \/ queue = <<>>
       \/ requests_started >= max_requests_per_crawl

\* C11: every run eventually reaches a terminal state (queue empty or the cap
\* on requests reached, every handler returned) and reports the total.
RunTerminates == <>Terminal

\* C11 happens: no product was ever extracted, every listing page gave a next
\* page, and the run ended on the cap with a request still queued.
StoppedByRequestCap ==
    /\ Terminal
    /\ total_reported = <<"total", 0>>
    /\ queue # <<>>
    /\ requests_started = max_requests_per_crawl

\* handler slot w returns on a failure in this step: no h1 appeared on the
\* product page, or the listing page gave no entry to store
ProductFailure(w) == pc[w] = "wait_h1" /\ pc'[w] = "idle"
ListingFailure(w) == pc[w] = "wait_grid" /\ pc'[w] = "diagnose"

\* C12: a failure at one target stores no record, leaves the counter alone,
\* puts nothing back on the queue and stops nothing: the queue, the count of
\* requests and the other handlers are as before, so the crawler goes on with
\* the next queued target.
FailureSwallowed ==
    [][\A w \in Workers :
          (ProductFailure(w) \/ ListingFailure(w)) =>
             /\ dataset' = dataset
             /\ products_scraped' = products_scraped
             /\ queue' = queue
             /\ requests_started' = requests_started
             /\ total_reported' = NULL
             /\ \A v \in Workers \ {w} : pc'[v] = pc[v] /\ req'[v] = req[v]]_vars

\* C12 happens: a product page without h1 was the last thing logged, a record
\* of another target is stored, and a target is still queued for the free slots.
FailedAndWentOn ==
    /\ log = "Title not found"
    /\ dataset # <<>>
    /\ queue # <<>>
    /\ requests_started < max_requests_per_crawl
    /\ \E w \in Workers : pc[w] = "idle"

\* C13: the counter never goes down, and a handler that starts on a target
\* while products_scraped >= max_items returns at once: no record, no URL
\* marked, the counter and the queue unchanged.  A target taken from the
\* queue when the budget was met is therefore discarded.
DiscardedOverBudget ==
    [][/\ products_scraped' >= products_scraped
       /\ \A w \in Workers :
             (pc[w] = "navigate" /\ products_scraped >= max_items /\ pc'[w] # pc[w]) =>
                /\ pc'[w] = "idle"
                /\ dataset' = dataset
                /\ scraped_urls' = scraped_urls
                /\ products_scraped' = products_scraped
                /\ queue' = queue]_vars

\* C13 happens: the budget is met and every record counted, and a Search
\* target and a Product target have been taken from the queue and wait for
\* their handlers.
TargetsOverBudget ==
    /\ products_scraped >= max_items
    /\ Len(dataset) = products_scraped
    /\ \E w \in Workers : pc[w] = "navigate" /\ req[w].label = "SEARCH"
    /\ \E w \in Workers : pc[w] = "navigate" /\ req[w].label = "PRODUCT"

\* the search terms of the input that are not blank, and the entries of its
\* start_urls that name a URL of the site
NonBlankTerms == SelectSeq(actor_input.search_terms, LAMBDA t : t \notin {"", "  "})
SiteEntries ==
    SelectSeq(actor_input.start_urls, LAMBDA item : item.kind # "other" /\ OnSite(item.url))

\* C14: the initial requests are one Search request per non-blank search term,
\* in order, then the start URLs of the site, every other entry dropped; when
\* that leaves nothing (both inputs empty included) they are the one default
\* Search request.  They are never empty.
SeedsFromInput ==
    LET n == Len(NonBlankTerms)
        m == Len(SiteEntries)
    IN  /\ initial_requests # <<>>
        /\ Len(initial_requests) = IF n + m = 0 THEN 1 ELSE n + m
        /\ \A k \in 1..n :
              /\ initial_requests[k].label = "SEARCH"
              /\ initial_requests[k].url = SEARCH_URL_TEMPLATE(quote_plus(NonBlankTerms[k]))
        /\ \A k \in 1..m : initial_requests[n + k].url = SiteEntries[k].url
        /\ n + m = 0 =>
              initial_requests = <<[url |-> SEARCH_URL_TEMPLATE("Silver+coin"),
                                   label |-> "SEARCH"]>>

\* C14 happens: the input held a search term, a start URL of the site, an
\* entry that is no URL and an off-site URL; the two bad entries were dropped
\* and the run went on to store a record.
BadSeedsDropped ==
    /\ Len(actor_input.search_terms) = 1
    /\ Len(actor_input.start_urls) = 3
    /\ Len(initial_requests) = 2
    /\ dataset # <<>>

\* the URL ends in no slash; two URLs differ in trailing slashes at most
NoTrailingSlash(url) == url = <<>> \/ url[Len(url)] # "/"
SameProduct(u, v) == RStripTok(u, "/") = RStripTok(v, "/")

\* C15: after every step each URL in scraped_urls and in a stored record ends
\* in no slash, and no two records are for URLs that differ in trailing
\* slashes only; a product handler that goes on to extract has marked the
\* request's URL without its trailing slashes, which was not marked before,
\* and one that skips a duplicate found that URL marked.
SlashTrimmedEverywhere ==
    [][/\ \A u \in scraped_urls' : NoTrailingSlash(u)
       /\ \A k \in 1..Len(dataset') : NoTrailingSlash(dataset'[k].url)
       /\ \A k, l \in 1..Len(dataset') :
             SameProduct(dataset'[k].url, dataset'[l].url) => k = l
       /\ \A w \in Workers :
             (pc[w] = "navigate" /\ req[w].label = "PRODUCT" /\ products_scraped < max_items) =>
                /\ pc'[w] = "wait_h1" =>
                      /\ \A v \in scraped_urls : ~SameProduct(v, req[w].url)
                      /\ \E u \in scraped_urls' :
                            /\ SameProduct(u, req[w].url)
                            /\ scraped_urls' = scraped_urls \cup {u}
                            /\ frame'[w].url = u
                /\ (pc'[w] = "idle" /\ log' = "Skipping duplicate product") =>
                      \E v \in scraped_urls : SameProduct(v, req[w].url)]_vars

\* C15 happens: a start URL with a trailing slash was skipped as a duplicate
\* of the same URL without it, for which a record is stored.
SlashedSeedSkipped ==
    /\ log = "Skipping duplicate product"
    /\ \E k \in 1..Len(initial_requests) : initial_requests[k].url = EagleSlashUrl
    /\ \E k \in 1..Len(initial_requests) : initial_requests[k].url = EagleUrl
    /\ \E r \in Records : r.url = EagleUrl

\* the characters a number is written with
Numeral == Digits \cup {",", "."}

\* text[i..j] is the first run of numeral characters of the text and has the
\* shape of a price: it starts with a digit, holds at most one decimal point
\* and no comma behind it
PriceRun(text, i, j) ==
    /\ \A k \in 1..(i - 1) : text[k] \notin Numeral
    /\ text[i] \in Digits
    /\ \A k \in i..j : text[k] \in Numeral
    /\ j = Len(text) \/ text[j + 1] \notin Numeral
    /\ \A k, l \in i..j : (text[k] = "." /\ l > k) => text[l] \in Digits

\* the digits of text[i..j] and how many of them stand behind the point
RunDigits(text, i, j) == SelectSeq(SubSeq(text, i, j), LAMBDA c : c \in Digits)

RunScale(text, i, j) ==
    IF \E k \in i..j : text[k] = "."
    THEN j - (CHOOSE k \in i..j : text[k] = ".")
    ELSE 0

\* the float f is n / 10^k
FloatIs(f, n, k) == f # NULL /\ f[1] * 10^k = n * 10^(f[2])

\* C16: parse_price returns None for None, for '' and for a text without a
\* digit ("Contact us"); it returns 5120.96 for "$5,120.96", and for every
\* text whose first run of digits, commas and point has the shape of a price
\* the decimal value of that run without its commas; it always returns.
ParsePriceValue ==
    price_numeric # NoPrice =>
        /\ price_numeric = NULL \/ (Len(price_numeric) = 2 /\ price_numeric[1] \in Nat)
        /\ price_str \in {NULL, <<>>} => price_numeric = NULL
        /\ (\A k \in 1..Len(price_str) : price_str[k] \notin Digits) => price_numeric = NULL
        /\ price_str = PriceContact => price_numeric = NULL
        /\ price_str = PriceDollars => price_numeric = <<512096, 2>>
        /\ \A i, j \in 1..Len(price_str) :
              (price_str # NULL /\ i <= j /\ PriceRun(price_str, i, j)) =>
                  FloatIs(price_numeric, DigitsValue(RunDigits(price_str, i, j)),
                          RunScale(price_str, i, j))

\* C16 happens: parse_price was applied to "$5,120.96" and returned 5120.96.
DollarsParsed ==
    /\ price_str = PriceDollars
    /\ price_numeric = <<512096, 2>>

\* the step in which the listing handler of slot w, its entries processed,
\* passes the test of lines 477 / 516 and returns
PaginationStep(w) == pc[w] \in {"listing_pushed", "diagnose"} /\ pc'[w] = "idle"

\* the queue grows by exactly one request, of the label of w's page
OneTargetAppended(w) ==
    /\ Len(queue') = Len(queue) + 1
    /\ SubSeq(queue', 1, Len(queue)) = queue
    /\ req[w].label \in {"SEARCH", "CATEGORY"}
    /\ queue'[Len(queue')] = Request(PageLink(req[w].url), req[w].label)

ProductTaken(w) ==
    /\ pc[w] = "navigate"
    /\ req[w].label = "PRODUCT"
    /\ products_scraped < max_items
    /\ pc'[w] # "navigate"

\* the target's URL is already visited, holds a deny-list segment, or is a
\* category URL
ProductSkippable(url) ==
    \/ RStripTok(url, "/") \in scraped_urls
    \/ \E skip \in SKIP_PATH_SEGMENTS : Contains(url, skip)
    \/ is_category_url(url)

\* C18: a Product target whose URL is already visited, is on the deny-list or
\* re-classifies as Category is skipped with no record and with the counter and
\* the visited set unchanged; every other Product target is marked visited
\* before its extraction, and a successful extraction emits exactly one record
\* and increments the counter by exactly one.
ProductSkipOrExtract ==
    [][\A w \in Workers :
          /\ ProductTaken(w) =>
                IF ProductSkippable(req[w].url)
                THEN /\ pc'[w] = "idle"
                     /\ dataset' = dataset
                     /\ products_scraped' = products_scraped
                     /\ scraped_urls' = scraped_urls
                ELSE /\ pc'[w] = "wait_h1"
                     /\ dataset' = dataset
                     /\ scraped_urls' = scraped_urls \cup {RStripTok(req[w].url, "/")}
          /\ (pc[w] = "wait_h1" /\ pc'[w] = "product_pushed") =>
                /\ Len(dataset') = Len(dataset) + 1
                /\ SubSeq(dataset', 1, Len(dataset)) = dataset
                /\ dataset'[Len(dataset')].url = RStripTok(req[w].url, "/")
                /\ products_scraped' = products_scraped
          /\ (pc[w] = "product_pushed" /\ pc'[w] # "product_pushed") =>
                /\ products_scraped' = products_scraped + 1
                /\ dataset' = dataset]_vars

\* the handler of slot w comes back from page.evaluate
ListingEvaluated(w) == pc[w] = "wait_grid" /\ pc'[w] # "wait_grid"

\* the handler of slot w, having extracted nothing, returns
EmptyHandlerReturns(w) == pc[w] = "diagnose" /\ pc'[w] # "diagnose"

\* C19: a listing page from which nothing is extracted (in particular one with
\* zero entries) raises no error: the handler stores no record, leaves the
\* counter and the visited set as they are, and goes on to its pagination
\* test, where the next page can be enqueued when the budget is not exhausted.
EmptyListingGoesOn ==
    /\ [][\A w \in Workers :
             /\ ListingEvaluated(w) =>
                   /\ pc'[w] \in {"listing_pushed", "diagnose"}
                   /\ pc'[w] = "diagnose" =>
                         /\ dataset' = dataset
                         /\ products_scraped' = products_scraped
                         /\ scraped_urls' = scraped_urls
                         /\ queue' = queue
                         /\ req'[w] = req[w]
             /\ EmptyHandlerReturns(w) =>
                   /\ pc'[w] = "idle"
                   /\ dataset' = dataset
                   /\ products_scraped' = products_scraped
                   /\ scraped_urls' = scraped_urls
                   /\ queue' # queue => products_scraped < max_items]_vars
    /\ [](\A w \in Workers : pc[w] = "diagnose" =>
             /\ ENABLED listing_handler_paginate(w)
             /\ products_scraped < max_items =>
                   ENABLED (listing_handler_paginate(w) /\ queue' # queue))

\* C19 happens: the listing of the default search came back with zero entries
\* and the handler has returned: nothing is stored, counted or marked, and the
\* next page of the search is the one request in the queue.
EmptyListingPaginated ==
    /\ actor_input = ActorInput(<<>>, <<>>)
    /\ requests_started = 1
    /\ \A w \in Workers : pc[w] = "idle"
    /\ dataset = <<>>
    /\ products_scraped = 0
    /\ scraped_urls = {}
    /\ queue = <<Request(PageLink(initial_requests[1].url), "SEARCH")>>

\* a container from which strategy 1 makes an entry: an item with an anchor
\* and a name element or a title
ItemCard(el) == el.sel = "item" /\ el.href # NULL /\ (el.name # NULL \/ el.title # <<>>)

\* C20: strategy 2 runs only when strategy 1 produced no entry (when a page
\* has a container strategy 1 makes an entry from, every entry returned comes
\* from such a container), and every entry strategy 2 returns has a name of
\* more than 3 characters and a URL no other returned entry has.
StrategyBFiltered ==
    products # NoProducts =>
        IF \E i \in 1..Len(document) : ItemCard(document[i])
        THEN \A k \in 1..Len(products) :
                 \E i \in 1..Len(document) :
                     ItemCard(document[i]) /\ products[k].url = document[i].href
        ELSE (\E i \in 1..Len(document) : document[i].sel = "grid" /\ document[i].name # NULL) =>
                 /\ \A k \in 1..Len(products) : Len(products[k].name) > 3
                 /\ \A k, l \in 1..Len(products) :
                        k # l => products[k].url # products[l].url

\* the handlers that have pushed a record and not yet counted it
Uncounted == {w \in Workers : pc[w] \in {"product_pushed", "listing_pushed"}}

\* C21: products_scraped is the number of records pushed less one for each
\* handler that stands between its push and its increment; so whenever no
\* handler stands there the two are equal, and the total reported at the end
\* of the run is the number of records in the dataset.
CounterMatchesDataset ==
    /\ products_scraped + Cardinality(Uncounted) = Len(dataset)
    /\ Uncounted = {} => products_scraped = Len(dataset)
    /\ total_reported # NULL =>
          /\ Uncounted = {}
          /\ total_reported = <<"total", Len(dataset)>>

\* C21 happens: the run has ended with a record of a product page and a
\* record of a listing in the dataset, and has reported a total of 2.
TotalOfBothEmitters ==
    /\ total_reported = <<"total", 2>>
    /\ Len(dataset) = 2
    /\ \E r \in Records : r.availability = NULL
    /\ \E r \in Records : r.availability # NULL

\* the URLs of the model's pages and inputs, without their trailing slashes
KnownUrls ==
    {RStripTok(url, "/") : url \in {EagleUrl, EagleSlashUrl, BuffaloUrl, BarUrl, AboutUrl,
                                     ShippingUrl, ImageUrl, SilverUrl, OffSiteUrl}}

HasRecord(url) == \E r \in Records : r.url = url

\* a product handler has marked url and is waiting for the page's h1
BeingExtracted(url) == \E w \in Workers : pc[w] = "wait_h1" /\ frame[w].url = url

\* url is visited with no record and no handler at work on it: the product
\* handler that marked it has failed
FailedProduct(url) == url \in scraped_urls /\ ~HasRecord(url) /\ ~BeingExtracted(url)

\* C22: scraped_urls only grows and holds the URL of every record; a product
\* URL is in it while its page is extracted and stays in it when no h1 is
\* found; a record is only ever pushed for a URL that was not visited before,
\* by the handler that marked it, so once a product handler has failed on a
\* URL no product target and no listing entry stores a record for that URL.
VisitedStaysVisited ==
    /\ [](\A r \in Records : r.url \in scraped_urls)
    /\ [](\A w \in Workers : pc[w] = "wait_h1" => frame[w].url \in scraped_urls)
    /\ [][/\ scraped_urls \subseteq scraped_urls'
          /\ \A w \in Workers :
                /\ (pc[w] = "navigate" /\ pc'[w] = "wait_h1") =>
                      frame'[w].url \notin scraped_urls
                /\ (pc[w] = "wait_h1" /\ pc'[w] = "idle") =>
                      /\ dataset' = dataset
                      /\ frame[w].url \in scraped_urls'
                /\ (pc'[w] = "listing_pushed" /\ frame'[w] # frame[w]) =>
                      /\ frame'[w].url \notin scraped_urls
                      /\ dataset'[Len(dataset')].url = frame'[w].url
          /\ Len(dataset') > Len(dataset) =>
                \/ BeingExtracted(dataset'[Len(dataset')].url)
                \/ dataset'[Len(dataset')].url \notin scraped_urls]_vars
    /\ \A url \in KnownUrls : [](FailedProduct(url) => []~HasRecord(url))

\* C22 happens: no h1 was found on the page of the eagle coin, and a later
\* product target for the same URL has been skipped as a duplicate.
FailedThenSkipped ==
    /\ FailedProduct(EagleUrl)
    /\ log = "Skipping duplicate product"
    /\ \A w \in Workers : pc[w] = "idle"

====
